---- MODULE Spec2Model ----
(***************************************************************************)
(* Constitutive-physics kernel of the AGMD desalination simulator          *)
(* (src/src/dessal/physics.c): membrane conductivity, channel heat and     *)
(* mass transfer coefficients, molecular and Knudsen diffusivities, wall   *)
(* salt concentration and trans-membrane water mass flux.                  *)
(*                                                                         *)
(* PetscReal values are modelled as exact rationals over arbitrary-size    *)
(* naturals (TLC integers are 32 bit): +, -, * and / are exact, so the     *)
(* rounding of IEEE-754 arithmetic is idealised away.  The math library    *)
(* functions (PetscPowReal, PetscExpReal, PetscSqrtReal) are computed, in  *)
(* fixed point with range reduction and series, to about four significant  *)
(* digits, and return rationals as the library returns doubles.            *)
(***************************************************************************)
EXTENDS Integers, Sequences, FiniteSets, TLC

(***************************************************************************)
(* Naturals of arbitrary size: little-endian sequences of limbs in base    *)
(* Base, without leading zero limbs; <<>> is zero.                         *)
(***************************************************************************)
Base == 1000

Min2(a, b) == IF a < b THEN a ELSE b

Max2(a, b) == IF a > b THEN a ELSE b

RECURSIVE BStrip(_)
BStrip(a) ==
  IF a = <<>> THEN a
  ELSE IF a[Len(a)] = 0 THEN BStrip(SubSeq(a, 1, Len(a) - 1)) ELSE a

RECURSIVE BFromNat(_)
BFromNat(k) == IF k = 0 THEN <<>> ELSE <<k % Base>> \o BFromNat(k \div Base)

\* Carry (and borrow) propagation over a sequence of column values of
\* nonnegative total: every column passes its excess to the next one, all
\* columns at once, until each is a limb.
RECURSIVE BCarry(_)
BCarry(cols) ==
  IF \A i \in 1..Len(cols) : cols[i] >= 0 /\ cols[i] < Base THEN cols
  ELSE LET n == Len(cols)
           m == IF cols[n] >= 0 /\ cols[n] < Base THEN n ELSE n + 1
       IN  BCarry([i \in 1..m |->
                     (IF i <= n THEN cols[i] % Base ELSE 0)
                     + (IF i > 1 THEN cols[i - 1] \div Base ELSE 0)])

BLimb(a, i) == IF i <= Len(a) THEN a[i] ELSE 0

BAdd(a, b) ==
  BStrip(BCarry([i \in 1..Max2(Len(a), Len(b)) |-> BLimb(a, i) + BLimb(b, i)]))

\* -1, 0, 1 as a < b, a = b, a > b: the highest limb that differs decides.
BCmp(a, b) ==
  IF Len(a) < Len(b) THEN -1
  ELSE IF Len(a) > Len(b) THEN 1
  ELSE IF a = b THEN 0
  ELSE LET i == CHOOSE i \in 1..Len(a) :
                  a[i] # b[i] /\ \A j \in (i + 1)..Len(a) : a[j] = b[j]
       IN  IF a[i] < b[i] THEN -1 ELSE 1

\* a - b for a >= b.
BSub(a, b) == BStrip(BCarry([i \in 1..Len(a) |-> a[i] - BLimb(b, i)]))

\* The sum of a[i] * b[k + 1 - i] over i in lo..hi, by halves.
RECURSIVE BColumn(_, _, _, _, _)
BColumn(a, b, k, lo, hi) ==
  IF lo = hi THEN a[lo] * b[k + 1 - lo]
  ELSE LET mid == (lo + hi) \div 2
       IN  BColumn(a, b, k, lo, mid) + BColumn(a, b, k, mid + 1, hi)

BMul(a, b) ==
  IF a = <<>> \/ b = <<>> THEN <<>>
  ELSE BStrip(BCarry([k \in 1..(Len(a) + Len(b) - 1) |->
                         BColumn(a, b, k, Max2(1, k + 1 - Len(b)), Min2(Len(a), k))]))

RECURSIVE BPow2(_)
BPow2(k) == IF k <= 30 THEN BFromNat(2 ^ k) ELSE BMul(BFromNat(2 ^ 30), BPow2(k - 30))

(***************************************************************************)
(* PetscReal: a rational [s, n, d] of sign s in {-1, 0, 1}, numerator n    *)
(* and denominator d > 0.  Not reduced: compare with REq and RLt.          *)
(***************************************************************************)
\* Common trailing zero limbs (factors of Base) are cancelled.
RECURSIVE RMk(_, _, _)
RMk(s, n, d) ==
  IF n = <<>> THEN [s |-> 0, n |-> <<>>, d |-> <<1>>]
  ELSE IF n[1] = 0 /\ d[1] = 0 THEN RMk(s, Tail(n), Tail(d))
  ELSE [s |-> s, n |-> n, d |-> d]

\* The integer k.
RInt(k) == RMk(IF k < 0 THEN -1 ELSE 1, BFromNat(IF k < 0 THEN -k ELSE k), <<1>>)

\* The decimal literal m * 10^(-e), e >= 0, as the source writes it.
RECURSIVE BPow10(_)
BPow10(e) == IF e <= 9 THEN BFromNat(10 ^ e) ELSE BMul(BFromNat(10 ^ 9), BPow10(e - 9))

RDec(m, e) == RMk(IF m < 0 THEN -1 ELSE 1, BFromNat(IF m < 0 THEN -m ELSE m), BPow10(e))

RNeg(x) == [x EXCEPT !.s = -x.s]

RMul(x, y) ==
  IF x.s * y.s = 0 THEN RMk(0, <<>>, <<1>>)
  ELSE RMk(x.s * y.s, BMul(x.n, y.n), BMul(x.d, y.d))

\* x / y; a division by zero, which the code leaves to IEEE arithmetic, is
\* outside the model: the inputs keep every divisor nonzero.
RDiv(x, y) ==
  IF x.s * y.s = 0 THEN RMk(0, <<>>, <<1>>)
  ELSE RMk(x.s * y.s, BMul(x.n, y.d), BMul(x.d, y.n))

RAdd(x, y) ==
  IF x.s = 0 THEN y
  ELSE IF y.s = 0 THEN x
  ELSE LET a == BMul(x.n, y.d)
           b == BMul(y.n, x.d)
           d == IF x.d = y.d THEN x.d ELSE BMul(x.d, y.d)
           a1 == IF x.d = y.d THEN x.n ELSE a
           b1 == IF x.d = y.d THEN y.n ELSE b
       IN  IF x.s = y.s THEN RMk(x.s, BAdd(a1, b1), d)
           ELSE LET c == BCmp(a1, b1)
                IN  IF c = 0 THEN RMk(0, <<>>, <<1>>)
                    ELSE IF c > 0 THEN RMk(x.s, BSub(a1, b1), d)
                    ELSE RMk(y.s, BSub(b1, a1), d)

RSub(x, y) == RAdd(x, RNeg(y))

\* -1, 0, 1 as x < y, x = y, x > y.
RCmp(x, y) ==
  IF x.s # y.s THEN (IF x.s < y.s THEN -1 ELSE 1)
  ELSE IF x.s = 0 THEN 0
  ELSE x.s * BCmp(BMul(x.n, y.d), BMul(y.n, x.d))

REq(x, y) == RCmp(x, y) = 0

RLt(x, y) == RCmp(x, y) < 0

RLe(x, y) == RCmp(x, y) <= 0

RZero == RInt(0)

ROne == RInt(1)

RAbs(x) == IF x.s < 0 THEN RNeg(x) ELSE x

(***************************************************************************)
(* The math library.  Values are taken to fixed point (FixOne = 1.0),      *)
(* reduced to [1, 2) or [0, ln 2) and summed as series; results go back    *)
(* to rationals.                                                           *)
(***************************************************************************)
FixOne == 10000

\* floor(ln 2 * FixOne)
FixLn2 == 6931

\* The searches below fix one digit of the result, in base Radix, at a time.
Radix == 8

FixMax == 2000000000

\* lo + c * step is in lo..hi and at most x * FixOne.
FixBelow(x, lo, c, step, hi) ==
  /\ c <= (hi - lo) \div step
  /\ BCmp(BMul(BFromNat(lo + c * step), x.d), BMul(x.n, BFromNat(FixOne))) <= 0

\* Largest y in lo..hi with y <= x * FixOne, for x >= 0: lo satisfies it, and
\* the result is below lo + Radix * step.
RECURSIVE FixFloorIn(_, _, _, _)
FixFloorIn(x, lo, hi, step) ==
  IF step = 0 THEN lo
  ELSE LET digit == CHOOSE c \in 0..(Radix - 1) :
                      /\ c = Radix - 1 \/ ~FixBelow(x, lo, c + 1, step, hi)
                      /\ c = 0 \/ FixBelow(x, lo, c, step, hi)
       IN  FixFloorIn(x, lo + digit * step, hi, step \div Radix)

\* floor(x * FixOne) for a rational x of either sign.
FixFloor(x) ==
  IF x.s >= 0 THEN FixFloorIn(x, 0, FixMax, Radix ^ 10)
  ELSE LET f == FixFloorIn(RNeg(x), 0, FixMax, Radix ^ 10)
       IN  IF BCmp(BMul(BFromNat(f), x.d), BMul(x.n, BFromNat(FixOne))) = 0
           THEN -f ELSE -(f + 1)

\* The rational f / FixOne * 2^j.
RFix(f, j) ==
  IF j >= 0 THEN RMk(1, BMul(BFromNat(f), BPow2(j)), BFromNat(FixOne))
  ELSE RMk(1, BFromNat(f), BMul(BFromNat(FixOne), BPow2(-j)))

\* 2^k <= x, for x > 0 and k of either sign.
Pow2Below(k, x) ==
  IF k >= 0 THEN BCmp(BMul(BPow2(k), x.d), x.n) <= 0
  ELSE BCmp(x.d, BMul(BPow2(-k), x.n)) <= 0

\* k with 2^k <= x < 2^(k+1), for x > 0: the limb counts of x bracket it.
Log2Floor(x) ==
  LET e == Len(x.n) - Len(x.d)
      slack == (IF e < 0 THEN -e ELSE e) + 1
  IN  CHOOSE k \in (10 * (e - 1) - slack)..(10 * (e + 1) + slack) :
        ~Pow2Below(k + 1, x) /\ Pow2Below(k, x)

\* a * b / FixOne in fixed point, for a of either sign and b >= 0, without
\* leaving 32 bits.
FixMul(a, b) == (a \div FixOne) * b + ((a % FixOne) * b) \div FixOne

\* 2 * atanh(t) = ln((1 + t) / (1 - t)), for 0 <= t <= 1/3.
FixLnSeries(t) ==
  LET t2 == FixMul(t, t)
      t3 == FixMul(t, t2)
      t5 == FixMul(t3, t2)
      t7 == FixMul(t5, t2)
      t9 == FixMul(t7, t2)
  IN  2 * (t + t3 \div 3 + t5 \div 5 + t7 \div 7 + t9 \div 9)

\* ln(x) in fixed point, for x > 0: x = m * 2^k with m in [1, 2).
FixLn(x) ==
  LET k == Log2Floor(x)
      m == IF k >= 0 THEN RMk(1, x.n, BMul(x.d, BPow2(k)))
           ELSE RMk(1, BMul(x.n, BPow2(-k)), x.d)
      mf == FixFloorIn(m, FixOne, 2 * FixOne, Radix ^ 4)
  IN  k * FixLn2 + FixLnSeries(((mf - FixOne) * FixOne) \div (mf + FixOne))

\* exp(r) in fixed point, for 0 <= r < ln 2: the Taylor series to r^8 / 8!.
RECURSIVE FixExpSeries(_, _, _, _)
FixExpSeries(r, i, term, acc) ==
  IF i > 8 \/ term = 0 THEN acc
  ELSE LET t == (term * r) \div (i * FixOne)
       IN  FixExpSeries(r, i + 1, t, acc + t)

\* exp(z) for a fixed-point z: z = j * ln 2 + r.
RExpFix(z) ==
  LET j == z \div FixLn2
      r == z - j * FixLn2
  IN  RFix(FixExpSeries(r, 1, FixOne, FixOne), j)

PetscExpReal(x) == RExpFix(FixFloor(x))

\* x^y = exp(y * ln x), for x > 0.
PetscPowReal(x, y) ==
  LET yf == FixFloor(RAbs(y))
      z == FixMul(FixLn(x), yf)
  IN  RExpFix(IF y.s < 0 THEN -z ELSE z)

\* y = lo + c * step is in lo..hi and (y / FixOne)^2 is at most x.
FixSquareBelow(x, lo, c, step, hi) ==
  /\ c <= (hi - lo) \div step
  /\ LET y == BFromNat(lo + c * step)
     IN  BCmp(BMul(BMul(y, y), x.d),
              BMul(x.n, BMul(BFromNat(FixOne), BFromNat(FixOne)))) <= 0

\* Largest y in lo..hi with (y / FixOne)^2 <= x, for x >= 0, digit by digit.
RECURSIVE FixSqrtIn(_, _, _, _)
FixSqrtIn(x, lo, hi, step) ==
  IF step = 0 THEN lo
  ELSE LET digit == CHOOSE c \in 0..(Radix - 1) :
                      /\ c = Radix - 1 \/ ~FixSquareBelow(x, lo, c + 1, step, hi)
                      /\ c = 0 \/ FixSquareBelow(x, lo, c, step, hi)
       IN  FixSqrtIn(x, lo + digit * step, hi, step \div Radix)

\* sqrt(x) rounded down to a multiple of 1 / FixOne, for x >= 0.
PetscSqrtReal(x) == RFix(FixSqrtIn(x, 0, FixMax, Radix ^ 10), 0)

(***************************************************************************)
(* Collaborators declared in properties.h and entrydata.h.                 *)
(***************************************************************************)
\* J / (mol K)
gas_constant == RDec(8314, 3)

\* kg / mol
water_molar_mass == RDec(18015, 6)

\* Pa
atm_pressure == RInt(101325)

\* M_PI of math.h, to nine decimals.
M_PI == RDec(314159265, 8)

RhoNaCl == RInt(2160)

\* Density of pure water, kg/m3, at the temperatures (Celsius) of the model.
PureWaterDensity(temperature) ==
  IF RLe(temperature, RInt(20)) THEN RDec(9982, 1)
  ELSE IF RLe(temperature, RInt(40)) THEN RDec(9922, 1)
  ELSE IF RLe(temperature, RInt(60)) THEN RDec(9832, 1)
  ELSE RDec(9718, 1)

\* Density of brine: the specific volumes of water and salt add up.
SaltWaterDensity(temperature, salinity) ==
  LET density == PureWaterDensity(temperature)
  IN  RDiv(ROne, RAdd(RDiv(RSub(ROne, salinity), density), RDiv(salinity, RhoNaCl)))

(***************************************************************************)
(* physics.c                                                               *)
(***************************************************************************)
\* Mutant: the porosity taken where the solid fraction 1 - porosity belongs.
MembraneConductivity_SolidFractionSwapped(pore_air_prop, polymer_conductivity, membrane_porosity) ==
  LET air_conductivity == pore_air_prop.thermal_conductivity
      beta == RDiv(RSub(polymer_conductivity, air_conductivity),
                   RAdd(polymer_conductivity, RMul(RInt(2), air_conductivity)))
  IN  RDiv(RMul(RMul(RDec(93, 2), air_conductivity),
                RAdd(ROne, RMul(RMul(RInt(2), beta), membrane_porosity))),
           RSub(ROne, RMul(beta, membrane_porosity)))

\* Mutant: the empirical factor 0.93 left out.
MembraneConductivity_NoFactor(pore_air_prop, polymer_conductivity, membrane_porosity) ==
  LET air_conductivity == pore_air_prop.thermal_conductivity
      beta == RDiv(RSub(polymer_conductivity, air_conductivity),
                   RAdd(polymer_conductivity, RMul(RInt(2), air_conductivity)))
  IN  RDiv(RMul(air_conductivity,
                RAdd(ROne, RMul(RMul(RInt(2), beta), RSub(ROne, membrane_porosity)))),
           RSub(ROne, RMul(beta, RSub(ROne, membrane_porosity))))

MembraneConductivity(pore_air_prop, polymer_conductivity, membrane_porosity) ==
  LET air_conductivity == pore_air_prop.thermal_conductivity
      beta == RDiv(RSub(polymer_conductivity, air_conductivity),
                   RAdd(polymer_conductivity, RMul(RInt(2), air_conductivity)))
  IN  RDiv(RMul(RMul(RDec(93, 2), air_conductivity),
                RAdd(ROne, RMul(RMul(RInt(2), beta), RSub(ROne, membrane_porosity)))),
           RSub(ROne, RMul(beta, RSub(ROne, membrane_porosity))))

\* Mutant: the Reynolds number clamped to the range of the correlation.
ChannelReynolds_Clamped(dyn_viscosity, mass_flow_rate, channel_height, channel_width, number_channels, spacer_porosity) ==
  LET mass_velocity ==
        RDiv(mass_flow_rate,
             RMul(RMul(RMul(RInt(number_channels), channel_height), channel_width),
                  spacer_porosity))
      reynolds == RDiv(RMul(mass_velocity, channel_height), dyn_viscosity)
  IN  IF RLt(reynolds, RInt(10)) THEN RInt(10)
      ELSE IF RLt(RInt(10000), reynolds) THEN RInt(10000)
      ELSE reynolds

ChannelReynolds(dyn_viscosity, mass_flow_rate, channel_height, channel_width, number_channels, spacer_porosity) ==
  LET mass_velocity ==
        RDiv(mass_flow_rate,
             RMul(RMul(RMul(RInt(number_channels), channel_height), channel_width),
                  spacer_porosity))
  IN  RDiv(RMul(mass_velocity, channel_height), dyn_viscosity)

ChannelHeatTransfCoef(bulk_water_prop, wall_water_prop, mass_flow_rate, channel_height, channel_width, number_channels, spacer_porosity) ==
  LET dyn_viscosity == bulk_water_prop.dyn_viscosity
      thermal_conductivity == bulk_water_prop.thermal_conductivity
      prandtl == bulk_water_prop.prandtl
      wall_prandtl == wall_water_prop.prandtl
      reynolds == ChannelReynolds(dyn_viscosity, mass_flow_rate, channel_height,
                                  channel_width, number_channels, spacer_porosity)
      nusselt0 == RMul(RMul(RDec(22, 2), PetscPowReal(reynolds, RDec(69, 2))),
                       PetscPowReal(prandtl, RDec(13, 2)))
      nusselt == RMul(nusselt0, PetscPowReal(RDiv(prandtl, wall_prandtl), RDec(25, 2)))
  IN  RDiv(RMul(thermal_conductivity, nusselt), channel_height)

ChannelMassTransfCoef(bulk_water_prop, wall_water_prop, mass_flow_rate, channel_height, channel_width, number_channels, spacer_porosity) ==
  LET dyn_viscosity == bulk_water_prop.dyn_viscosity
      mass_diffusivity == bulk_water_prop.mass_diffusivity
      schmidt == bulk_water_prop.schmidt
      wall_schmidt == wall_water_prop.schmidt
      reynolds == ChannelReynolds(dyn_viscosity, mass_flow_rate, channel_height,
                                  channel_width, number_channels, spacer_porosity)
      sherwood0 == RMul(RMul(RDec(22, 2), PetscPowReal(reynolds, RDec(69, 2))),
                        PetscPowReal(schmidt, RDec(13, 2)))
      sherwood == RMul(sherwood0, PetscPowReal(RDiv(schmidt, wall_schmidt), RDec(25, 2)))
  IN  RDiv(RMul(mass_diffusivity, sherwood), channel_height)

MolecularDiffusion(membrane_porosity, membrane_tortuosity, temperature) ==
  LET molecular_diffusivity ==
        RDiv(RMul(RDec(446, 8), membrane_porosity), membrane_tortuosity)
  IN  RMul(molecular_diffusivity, PetscPowReal(temperature, RDec(2334, 3)))

\* Mutant: the tortuosity multiplying where it divides.
KnudsenDiffusion_TortuosityInverted(membrane_porosity, membrane_tortuosity, pore_diameter, temperature) ==
  LET knudsen0 == RDiv(pore_diameter, RInt(3))
      knudsen1 == RMul(knudsen0, RMul(membrane_porosity, membrane_tortuosity))
  IN  RMul(knudsen1,
           PetscSqrtReal(RDiv(RMul(RMul(RInt(8), gas_constant), temperature),
                              RMul(M_PI, water_molar_mass))))

KnudsenDiffusion(membrane_porosity, membrane_tortuosity, pore_diameter, temperature) ==
  LET knudsen0 == RDiv(pore_diameter, RInt(3))
      knudsen1 == RMul(knudsen0, RDiv(membrane_porosity, membrane_tortuosity))
  IN  RMul(knudsen1,
           PetscSqrtReal(RDiv(RMul(RMul(RInt(8), gas_constant), temperature),
                              RMul(M_PI, water_molar_mass))))

\* Mutant: the sign of the film-theory exponent slipped.
SaltWaterConcentration_ExponentSign(mass_transfer_coef, temperature, salinity, mass_flux) ==
  LET density == SaltWaterDensity(temperature, RZero)
      density_NaCl == RInt(2160)
      molar_mass_NaCl == RDec(5844, 5)
      molarity0 == RDiv(RMul(RDiv(ROne, molar_mass_NaCl), salinity),
                        RAdd(RDiv(RSub(ROne, salinity), density),
                             RDiv(salinity, density_NaCl)))
      molarity == RDiv(molarity0, RInt(1000))
      concentration ==
        RMul(molarity,
             PetscExpReal(RNeg(RDiv(mass_flux, RMul(density, mass_transfer_coef)))))
  IN  RDiv(RMul(RMul(RMul(RInt(1000), molar_mass_NaCl), density_NaCl), concentration),
           RAdd(RMul(density, density_NaCl),
                RMul(RMul(molar_mass_NaCl, concentration),
                     RSub(density_NaCl, density))))

SaltWaterConcentration(mass_transfer_coef, temperature, salinity, mass_flux) ==
  LET density == SaltWaterDensity(temperature, RZero)
      density_NaCl == RInt(2160)
      molar_mass_NaCl == RDec(5844, 5)
      molarity0 == RDiv(RMul(RDiv(ROne, molar_mass_NaCl), salinity),
                        RAdd(RDiv(RSub(ROne, salinity), density),
                             RDiv(salinity, density_NaCl)))
      molarity == RDiv(molarity0, RInt(1000))
      concentration ==
        RMul(molarity, PetscExpReal(RDiv(mass_flux, RMul(density, mass_transfer_coef))))
  IN  RDiv(RMul(RMul(RMul(RInt(1000), molar_mass_NaCl), density_NaCl), concentration),
           RAdd(RMul(density, density_NaCl),
                RMul(RMul(molar_mass_NaCl, concentration),
                     RSub(density_NaCl, density))))

\* MassFlux, statement by statement, over the record l of its parameters
\* (the callee's own copies, passed by value) and its local variables.
Uninitialized == "uninitialized"

MassFluxEntry(membrane_porosity, membrane_tortuosity, membrane_thickness, pore_diameter, gap_spacer_porosity, air_gap_thickness, temperature_membrane, temperature_gap, feed_membrane_pressure, film_boundary_pressure, vacuum_pressure) ==
  [membrane_porosity |-> membrane_porosity,
   membrane_tortuosity |-> membrane_tortuosity,
   membrane_thickness |-> membrane_thickness,
   pore_diameter |-> pore_diameter,
   gap_spacer_porosity |-> gap_spacer_porosity,
   air_gap_thickness |-> air_gap_thickness,
   temperature_membrane |-> temperature_membrane,
   temperature_gap |-> temperature_gap,
   feed_membrane_pressure |-> feed_membrane_pressure,
   film_boundary_pressure |-> film_boundary_pressure,
   vacuum_pressure |-> vacuum_pressure,
   molecular_diffusivity |-> Uninitialized,
   knudsen_diffusivity |-> Uninitialized,
   effective_diffusivity |-> Uninitialized,
   membrane_permeability |-> Uninitialized,
   gap_permeability |-> Uninitialized,
   permeability |-> Uninitialized,
   mass_flux |-> Uninitialized]

\* temperature_membrane += 273.15;
MassFluxKelvinMembrane(l) ==
  [l EXCEPT !.temperature_membrane = RAdd(@, RDec(27315, 2))]

\* Mutant: the gap temperature left in Celsius.
MassFluxKelvinGap_Celsius(l) == l

\* temperature_gap += 273.15;
MassFluxKelvinGap(l) ==
  [l EXCEPT !.temperature_gap = RAdd(@, RDec(27315, 2))]

MassFluxMembraneMolecular(l) ==
  [l EXCEPT !.molecular_diffusivity =
     MolecularDiffusion(l.membrane_porosity, l.membrane_tortuosity,
                        l.temperature_membrane)]

MassFluxMembraneKnudsen(l) ==
  [l EXCEPT !.knudsen_diffusivity =
     KnudsenDiffusion(l.membrane_porosity, l.membrane_tortuosity, l.pore_diameter,
                      l.temperature_membrane)]

\* Mutant: the feed pressure taken for the total pressure in the pores.
MassFluxEffectiveDiffusivity_FeedPressure(l) ==
  [l EXCEPT !.effective_diffusivity =
     RDiv(RMul(l.molecular_diffusivity, l.knudsen_diffusivity),
          RAdd(l.molecular_diffusivity,
               RMul(l.feed_membrane_pressure, l.knudsen_diffusivity)))]

MassFluxEffectiveDiffusivity(l) ==
  [l EXCEPT !.effective_diffusivity =
     RDiv(RMul(l.molecular_diffusivity, l.knudsen_diffusivity),
          RAdd(l.molecular_diffusivity,
               RMul(RAdd(atm_pressure, l.vacuum_pressure), l.knudsen_diffusivity)))]

MassFluxMembranePermeability(l) ==
  [l EXCEPT !.membrane_permeability =
     RDiv(RMul(water_molar_mass, l.effective_diffusivity),
          RMul(RMul(gas_constant, l.temperature_membrane), l.membrane_thickness))]

\* Mutant: the spacer porosity of the gap passed on to the diffusivity.
MassFluxGapMolecular_SpacerPorosity(l) ==
  [l EXCEPT !.molecular_diffusivity =
     MolecularDiffusion(l.gap_spacer_porosity, ROne, l.temperature_gap)]

MassFluxGapMolecular(l) ==
  [l EXCEPT !.molecular_diffusivity = MolecularDiffusion(ROne, ROne, l.temperature_gap)]

\* Mutant: the total pressure left out of the gap permeability.
MassFluxGapPermeability_NoPressure(l) ==
  [l EXCEPT !.gap_permeability =
     RDiv(RMul(water_molar_mass, l.molecular_diffusivity),
          RMul(RMul(gas_constant, l.temperature_gap), l.air_gap_thickness))]

MassFluxGapPermeability(l) ==
  [l EXCEPT !.gap_permeability =
     RDiv(RMul(water_molar_mass, l.molecular_diffusivity),
          RMul(RMul(RMul(gas_constant, l.temperature_gap),
                    RAdd(atm_pressure, l.vacuum_pressure)),
               l.air_gap_thickness))]

MassFluxPermeability(l) ==
  [l EXCEPT !.permeability =
     RDiv(RMul(l.membrane_permeability, l.gap_permeability),
          RAdd(l.membrane_permeability, l.gap_permeability))]

MassFluxResult(l) ==
  [l EXCEPT !.mass_flux =
     RMul(l.permeability, RSub(l.feed_membrane_pressure, l.film_boundary_pressure))]

\* The callee's parameters and locals at the return statement.
MassFluxLocals(membrane_porosity, membrane_tortuosity, membrane_thickness, pore_diameter, gap_spacer_porosity, air_gap_thickness, temperature_membrane, temperature_gap, feed_membrane_pressure, film_boundary_pressure, vacuum_pressure) ==
  MassFluxResult(MassFluxPermeability(MassFluxGapPermeability(MassFluxGapMolecular(
    MassFluxMembranePermeability(MassFluxEffectiveDiffusivity(MassFluxMembraneKnudsen(
      MassFluxMembraneMolecular(MassFluxKelvinGap(MassFluxKelvinMembrane(
        MassFluxEntry(membrane_porosity, membrane_tortuosity, membrane_thickness,
                      pore_diameter, gap_spacer_porosity, air_gap_thickness,
                      temperature_membrane, temperature_gap, feed_membrane_pressure,
                      film_boundary_pressure, vacuum_pressure)))))))))))

MassFlux(membrane_porosity, membrane_tortuosity, membrane_thickness, pore_diameter, gap_spacer_porosity, air_gap_thickness, temperature_membrane, temperature_gap, feed_membrane_pressure, film_boundary_pressure, vacuum_pressure) ==
  MassFluxLocals(membrane_porosity, membrane_tortuosity, membrane_thickness, pore_diameter,
                 gap_spacer_porosity, air_gap_thickness, temperature_membrane,
                 temperature_gap, feed_membrane_pressure, film_boundary_pressure,
                 vacuum_pressure).mass_flux

(***************************************************************************)
(* The inputs of the model.                                                *)
(***************************************************************************)
NAir == 3

NPolymer == 4

NFlow == 5

NGeometry == 2

NTemperature == 2

NSalinity == 4

NFlux == 3

NPressure == 2

\* W / (m K); pore air.
MoistAirProperties == {[thermal_conductivity |-> RDec(24 + 2 * i, 3)] : i \in 1..NAir}

\* W / (m K): -0.04, 0.02, 0.08, 0.14, ...; below and above the air's.
PolymerConductivities == {RDec(6 * i - 10, 2) : i \in 1..NPolymer}

MembranePorosities == {RZero, RDec(25, 2), RDec(5, 1), RDec(75, 2), ROne}

\* Brine at 60 C and at 25 C.
SaltWaterProperties ==
  {[dyn_viscosity |-> RDec(47, 5), thermal_conductivity |-> RDec(65, 2),
    prandtl |-> RDec(30, 1), mass_diffusivity |-> RDec(30, 10), schmidt |-> RInt(160)],
   [dyn_viscosity |-> RDec(89, 5), thermal_conductivity |-> RDec(60, 2),
    prandtl |-> RDec(61, 1), mass_diffusivity |-> RDec(15, 10), schmidt |-> RInt(600)]}

\* kg / s: 1e-6, 1e-4, 1e-2, 1, 100, ... and two neighbours.
MassFlowRates ==
  {RMk(1, BPow10(2 * i), BPow10(8)) : i \in 1..NFlow} \cup {RDec(5, 2), RDec(6, 2)}

\* m: 1 mm, 2 mm, ...
ChannelHeights == {RDec(i, 3) : i \in 1..NGeometry}

ChannelWidths == {RDec(1, 1)}

NumberChannels == {1, 6}

SpacerPorosities == {RDec(8, 1)}

Tortuosities == {RDec(5 * (i + 1), 1) : i \in 1..(NGeometry + 1)}

\* m: 0.1 um, 0.2 um, ...
PoreDiameters == {RDec(i, 7) : i \in 1..(NGeometry + 1)}

DiffusionPorosities == {RDec(5, 1), RDec(8, 1)}

\* K
KelvinTemperatures == {RDec(27315 + 2000 * i, 2) : i \in 1..(NTemperature + 2)}

\* Celsius
FeedTemperatures == {RInt(20 * i) : i \in 1..(NTemperature + 2)}

\* Mass fractions 0, 0.035, 0.07, ...
Salinities == {RDec(35 * i, 3) : i \in 0..NSalinity} \cup {RDec(5, 1)}

\* m / s
MassTransferCoefs == {RDec(1, 5), RDec(5, 5)}

\* kg / (m2 s): -0.001, 0, 0.001, 0.002, ...
MassFluxes == {RDec(i, 3) : i \in -1..NFlux}

MembraneTemperatures == {RInt(40 + 20 * i) : i \in 1..NTemperature}

GapTemperatures == {RInt(25), RInt(40)}

\* Pa: saturation pressures of water at 25, 40, 60 C.
FeedPressures == {RInt(3170), RInt(7380), RInt(19900)}

FilmPressures == {RInt(3170 + 4210 * (i - 1)) : i \in 1..NPressure}

VacuumPressures == {RZero, RInt(-50000)}

GapSpacerPorosities == {RDec(5, 1), RDec(8, 1), ROne}

InputsMembraneConductivity ==
  [pore_air_prop : MoistAirProperties, polymer_conductivity : PolymerConductivities,
   membrane_porosity : MembranePorosities]

InputsChannel ==
  [bulk_water_prop : SaltWaterProperties, wall_water_prop : SaltWaterProperties,
   mass_flow_rate : MassFlowRates, channel_height : ChannelHeights,
   channel_width : ChannelWidths, number_channels : NumberChannels,
   spacer_porosity : SpacerPorosities]

InputsDiffusion ==
  [membrane_porosity : DiffusionPorosities, membrane_tortuosity : Tortuosities,
   pore_diameter : PoreDiameters, temperature : KelvinTemperatures]

InputsSaltWaterConcentration ==
  [mass_transfer_coef : MassTransferCoefs, temperature : FeedTemperatures,
   salinity : Salinities, mass_flux : MassFluxes]

InputsMassFlux ==
  [membrane_porosity : {RDec(8, 1)}, membrane_tortuosity : {RDec(15, 1)},
   membrane_thickness : {RDec(100, 6)}, pore_diameter : {RDec(2, 7)},
   gap_spacer_porosity : GapSpacerPorosities, air_gap_thickness : {RDec(2, 3)},
   temperature_membrane : MembraneTemperatures, temperature_gap : GapTemperatures,
   feed_membrane_pressure : FeedPressures, film_boundary_pressure : FilmPressures,
   vacuum_pressure : VacuumPressures]

(***************************************************************************)
(* The caller of the kernel: it holds the arguments of one call (args),    *)
(* applies the function (fn) and receives the returned value (result).     *)
(* locals are the callee's local variables at its return.                  *)
(***************************************************************************)
VARIABLES fn, args, pc, result, locals

vars == <<fn, args, pc, result, locals>>

InitCall(f, inputs) ==
  /\ fn = f
  /\ args \in inputs
  /\ pc = "call"
  /\ result = RZero
  /\ locals = <<>>

\* The call returns v; the arguments were passed by value, and the property
\* structs are only read.
Return(f, v) ==
  /\ pc = "call"
  /\ fn = f
  /\ result' = v
  /\ pc' = "done"
  /\ UNCHANGED <<fn, args, locals>>

CallMembraneConductivity ==
  Return("MembraneConductivity",
         MembraneConductivity(args.pore_air_prop, args.polymer_conductivity,
                              args.membrane_porosity))

CallChannelHeatTransfCoef ==
  Return("ChannelHeatTransfCoef",
         ChannelHeatTransfCoef(args.bulk_water_prop, args.wall_water_prop,
                               args.mass_flow_rate, args.channel_height,
                               args.channel_width, args.number_channels,
                               args.spacer_porosity))

CallChannelMassTransfCoef ==
  Return("ChannelMassTransfCoef",
         ChannelMassTransfCoef(args.bulk_water_prop, args.wall_water_prop,
                               args.mass_flow_rate, args.channel_height,
                               args.channel_width, args.number_channels,
                               args.spacer_porosity))

CallMolecularDiffusion ==
  Return("MolecularDiffusion",
         MolecularDiffusion(args.membrane_porosity, args.membrane_tortuosity,
                            args.temperature))

CallKnudsenDiffusion ==
  Return("KnudsenDiffusion",
         KnudsenDiffusion(args.membrane_porosity, args.membrane_tortuosity,
                          args.pore_diameter, args.temperature))

CallSaltWaterConcentration ==
  Return("SaltWaterConcentration",
         SaltWaterConcentration(args.mass_transfer_coef, args.temperature,
                                args.salinity, args.mass_flux))

MassFluxLocalsOf(a) ==
  MassFluxLocals(a.membrane_porosity, a.membrane_tortuosity, a.membrane_thickness,
                 a.pore_diameter, a.gap_spacer_porosity, a.air_gap_thickness,
                 a.temperature_membrane, a.temperature_gap, a.feed_membrane_pressure,
                 a.film_boundary_pressure, a.vacuum_pressure)

CallMassFlux ==
  /\ pc = "call"
  /\ fn = "MassFlux"
  /\ locals' = MassFluxLocalsOf(args)
  /\ result' = locals'.mass_flux
  /\ pc' = "done"
  /\ UNCHANGED <<fn, args>>

Init ==
  \/ InitCall("MembraneConductivity", InputsMembraneConductivity)
  \/ InitCall("ChannelHeatTransfCoef", InputsChannel)
  \/ InitCall("ChannelMassTransfCoef", InputsChannel)
  \/ InitCall("MolecularDiffusion", InputsDiffusion)
  \/ InitCall("KnudsenDiffusion", InputsDiffusion)
  \/ InitCall("SaltWaterConcentration", InputsSaltWaterConcentration)
  \/ InitCall("MassFlux", InputsMassFlux)

Next ==
  \/ CallMembraneConductivity
  \/ CallChannelHeatTransfCoef
  \/ CallChannelMassTransfCoef
  \/ CallMolecularDiffusion
  \/ CallKnudsenDiffusion
  \/ CallSaltWaterConcentration
  \/ CallMassFlux

Spec == Init /\ [][Next]_vars

\* One specification per component of the kernel.
InitMembrane == InitCall("MembraneConductivity", InputsMembraneConductivity)

SpecMembrane == InitMembrane /\ [][CallMembraneConductivity]_vars

InitChannel ==
  \/ InitCall("ChannelHeatTransfCoef", InputsChannel)
  \/ InitCall("ChannelMassTransfCoef", InputsChannel)

NextChannel == CallChannelHeatTransfCoef \/ CallChannelMassTransfCoef

SpecChannel == InitChannel /\ [][NextChannel]_vars

InitDiffusion ==
  \/ InitCall("MolecularDiffusion", InputsDiffusion)
  \/ InitCall("KnudsenDiffusion", InputsDiffusion)

NextDiffusion == CallMolecularDiffusion \/ CallKnudsenDiffusion

SpecDiffusion == InitDiffusion /\ [][NextDiffusion]_vars

InitSalt == InitCall("SaltWaterConcentration", InputsSaltWaterConcentration)

SpecSalt == InitSalt /\ [][CallSaltWaterConcentration]_vars

InitMassFlux == InitCall("MassFlux", InputsMassFlux)

SpecMassFlux == InitMassFlux /\ [][CallMassFlux]_vars

Done(f) == pc = "done" /\ fn = f

(***************************************************************************)
(* Membrane Conductivity Model                                             *)
(***************************************************************************)
\* C3: with membrane_porosity = 1, MembraneConductivity returns exactly
\* 0.93 * air_conductivity, whatever the polymer conductivity.
C3_FullyPorous ==
  (Done("MembraneConductivity") /\ REq(args.membrane_porosity, ROne))
    => REq(result, RMul(RDec(93, 2), args.pore_air_prop.thermal_conductivity))

C3_Witness ==
  /\ Done("MembraneConductivity")
  /\ REq(args.membrane_porosity, ROne)
  /\ ~REq(args.polymer_conductivity, args.pore_air_prop.thermal_conductivity)
  /\ RLt(args.polymer_conductivity, RZero)

MaxwellBeta(a) ==
  RDiv(RSub(a.polymer_conductivity, a.pore_air_prop.thermal_conductivity),
       RAdd(a.polymer_conductivity,
            RMul(RInt(2), a.pore_air_prop.thermal_conductivity)))

\* C4: with membrane_porosity = 0 and positive conductivities,
\* MembraneConductivity returns 0.93 * k_air * (1 + 2 beta) / (1 - beta), and
\* that is 0.93 * polymer_conductivity: never the bare polymer conductivity.
C4_NoPores ==
  (/\ Done("MembraneConductivity")
   /\ REq(args.membrane_porosity, RZero)
   /\ RLt(RZero, args.polymer_conductivity))
    => /\ REq(result,
              RDiv(RMul(RMul(RDec(93, 2), args.pore_air_prop.thermal_conductivity),
                        RAdd(ROne, RMul(RInt(2), MaxwellBeta(args)))),
                   RSub(ROne, MaxwellBeta(args))))
       /\ REq(result, RMul(RDec(93, 2), args.polymer_conductivity))
       /\ ~REq(result, args.polymer_conductivity)

C4_Witness ==
  /\ Done("MembraneConductivity")
  /\ REq(args.membrane_porosity, RZero)
  /\ RLt(args.pore_air_prop.thermal_conductivity, args.polymer_conductivity)

(***************************************************************************)
(* Channel Transfer Coefficient Model                                      *)
(***************************************************************************)
ChannelCoefAt(f, a, mass_flow_rate) ==
  IF f = "ChannelHeatTransfCoef"
  THEN ChannelHeatTransfCoef(a.bulk_water_prop, a.wall_water_prop, mass_flow_rate,
                             a.channel_height, a.channel_width, a.number_channels,
                             a.spacer_porosity)
  ELSE ChannelMassTransfCoef(a.bulk_water_prop, a.wall_water_prop, mass_flow_rate,
                             a.channel_height, a.channel_width, a.number_channels,
                             a.spacer_porosity)

ReynoldsOf(a) ==
  ChannelReynolds(a.bulk_water_prop.dyn_viscosity, a.mass_flow_rate, a.channel_height,
                  a.channel_width, a.number_channels, a.spacer_porosity)

\* C5: with everything else fixed, ChannelHeatTransfCoef and
\* ChannelMassTransfCoef are strictly increasing in mass_flow_rate, at every
\* Reynolds number from far below to far above the correlation's range: the
\* coefficient returned is strictly less than the one at any larger flow rate.
C5_IncreasingInFlow ==
  (Done("ChannelHeatTransfCoef") \/ Done("ChannelMassTransfCoef"))
    => /\ RLt(RZero, result)
       /\ \A m2 \in MassFlowRates :
            RLt(args.mass_flow_rate, m2) => RLt(result, ChannelCoefAt(fn, args, m2))

C5_Witness ==
  /\ Done("ChannelMassTransfCoef")
  /\ RLt(ReynoldsOf(args), RDec(1, 1))
  /\ \E m2 \in MassFlowRates :
       /\ RLt(args.mass_flow_rate, m2)
       /\ RLt(RInt(100000), ReynoldsOf([args EXCEPT !.mass_flow_rate = m2]))

(***************************************************************************)
(* Diffusion Model                                                         *)
(***************************************************************************)
KnudsenAt(a) ==
  KnudsenDiffusion(a.membrane_porosity, a.membrane_tortuosity, a.pore_diameter,
                   a.temperature)

\* The value under the square root of KnudsenDiffusion.
KnudsenRadicand(temperature) ==
  RDiv(RMul(RMul(RInt(8), gas_constant), temperature), RMul(M_PI, water_molar_mass))

\* result / ((pore_diameter / 3) * porosity / tortuosity)
KnudsenSpeed(a, v) ==
  RDiv(v, RMul(RDiv(a.pore_diameter, RInt(3)),
               RDiv(a.membrane_porosity, a.membrane_tortuosity)))

\* The square root is returned to this absolute accuracy.
SqrtTolerance == RDiv(ROne, RInt(FixOne))

\* C6: KnudsenDiffusion is strictly increasing in temperature, as
\* sqrt(temperature) (the returned value over (d/3) * porosity / tortuosity
\* squares to 8 R T / (pi M) within the accuracy of the square root),
\* strictly increasing in and proportional to pore_diameter, and strictly
\* decreasing in membrane_tortuosity, the other arguments being fixed.
C6_KnudsenMonotone ==
  Done("KnudsenDiffusion")
    => /\ RLt(RZero, result)
       /\ \A t2 \in KelvinTemperatures :
            RLt(args.temperature, t2)
              => RLt(result, KnudsenAt([args EXCEPT !.temperature = t2]))
       /\ LET y == KnudsenSpeed(args, result)
              y1 == RAdd(y, SqrtTolerance)
          IN  /\ RLe(RMul(y, y), KnudsenRadicand(args.temperature))
              /\ RLt(KnudsenRadicand(args.temperature), RMul(y1, y1))
       /\ \A d2 \in PoreDiameters :
            LET v2 == KnudsenAt([args EXCEPT !.pore_diameter = d2])
            IN  /\ REq(RMul(result, d2), RMul(v2, args.pore_diameter))
                /\ RLt(args.pore_diameter, d2) => RLt(result, v2)
       /\ \A x2 \in Tortuosities :
            RLt(args.membrane_tortuosity, x2)
              => RLt(KnudsenAt([args EXCEPT !.membrane_tortuosity = x2]), result)

C6_Witness ==
  /\ Done("KnudsenDiffusion")
  /\ \E t2 \in KelvinTemperatures : RLt(args.temperature, t2)
  /\ \E d2 \in PoreDiameters : RLt(args.pore_diameter, d2)
  /\ \E x2 \in Tortuosities : RLt(args.membrane_tortuosity, x2)

(***************************************************************************)
(* Concentration Polarization Model                                        *)
(***************************************************************************)
SaltAt(a) ==
  SaltWaterConcentration(a.mass_transfer_coef, a.temperature, a.salinity, a.mass_flux)

\* Relative tolerance of "unchanged": one part in a million.
SalinityTolerance == RDec(1, 6)

\* C1: with mass_flux = 0, SaltWaterConcentration returns the bulk salinity
\* unchanged within tolerance (the conversion back from molarity inverts the
\* conversion from salinity), for every salinity in [0, 1).
C1_ZeroFluxReturnsSalinity ==
  (Done("SaltWaterConcentration") /\ REq(args.mass_flux, RZero))
    => RLe(RAbs(RSub(result, args.salinity)), RMul(SalinityTolerance, args.salinity))

\* C10: for salinity in (0, 1), the wall salinity returned is strictly
\* increasing in mass_flux and, for mass_flux >= 0, never below the bulk
\* salinity.
C10_PolarizationRaisesSalinity ==
  (/\ Done("SaltWaterConcentration")
   /\ RLt(RZero, args.salinity)
   /\ RLt(args.salinity, ROne))
    => /\ RLe(RZero, args.mass_flux) => RLe(args.salinity, result)
       /\ \A f2 \in MassFluxes :
            RLt(args.mass_flux, f2) => RLt(result, SaltAt([args EXCEPT !.mass_flux = f2]))

C10_Witness ==
  /\ Done("SaltWaterConcentration")
  /\ RLt(RZero, args.salinity)
  /\ RLt(RZero, args.mass_flux)
  /\ \E f2 \in MassFluxes : RLt(args.mass_flux, f2)

(***************************************************************************)
(* Mass Flux Model                                                         *)
(***************************************************************************)
PressureDifference(a) == RSub(a.feed_membrane_pressure, a.film_boundary_pressure)

\* The call with the pressures of the end-to-end scenario, else as a.
ReferencePressures(a) ==
  [a EXCEPT !.feed_membrane_pressure = RInt(19900), !.film_boundary_pressure = RInt(3170)]

\* C2: MassFlux = K * (feed_membrane_pressure - film_boundary_pressure) with
\* K > 0 the same at every pair of pressures: zero at equal pressures, positive
\* exactly when the feed pressure is the higher, linear and strictly
\* increasing in the difference.
C2_LinearInPressureDifference ==
  Done("MassFlux")
    => /\ RLt(RZero, locals.permeability)
       /\ REq(result, RMul(locals.permeability, PressureDifference(args)))
       /\ REq(args.feed_membrane_pressure, args.film_boundary_pressure) <=> REq(result, RZero)
       /\ RLt(args.film_boundary_pressure, args.feed_membrane_pressure) <=> RLt(RZero, result)
       /\ LET ref == MassFluxLocalsOf(ReferencePressures(args))
          IN  /\ REq(ref.permeability, locals.permeability)
              /\ REq(RMul(result, PressureDifference(ReferencePressures(args))),
                     RMul(ref.mass_flux, PressureDifference(args)))
       /\ \A p2 \in FeedPressures :
            RLt(args.feed_membrane_pressure, p2)
              => RLt(result, MassFluxLocalsOf([args EXCEPT !.feed_membrane_pressure = p2]).mass_flux)

C2_Witness ==
  /\ Done("MassFlux")
  /\ RLt(args.feed_membrane_pressure, args.film_boundary_pressure)
  /\ RLt(result, RZero)
  /\ ~REq(args.vacuum_pressure, RZero)

Kelvin(celsius) == RAdd(celsius, RDec(27315, 2))

TotalPressure(a) == RAdd(atm_pressure, a.vacuum_pressure)

\* C7 as claimed: the gap permeability is MolecularDiffusion(1, 1, T_gap) over
\* R * T_gap * (P_atm + P_vacuum) * gap_thickness with no other factor, in
\* series with the membrane permeability.
C7_GapPermeabilityBareDiffusivity ==
  Done("MassFlux")
    => /\ REq(locals.gap_permeability,
              RDiv(MolecularDiffusion(ROne, ROne, Kelvin(args.temperature_gap)),
                   RMul(RMul(RMul(gas_constant, Kelvin(args.temperature_gap)),
                             TotalPressure(args)),
                        args.air_gap_thickness)))
       /\ REq(locals.permeability,
              RDiv(RMul(locals.membrane_permeability, locals.gap_permeability),
                   RAdd(locals.membrane_permeability, locals.gap_permeability)))

\* C7, amended: the gap permeability is water_molar_mass *
\* MolecularDiffusion(1, 1, T_gap) over R * T_gap * (P_atm + P_vacuum) *
\* gap_thickness, T_gap in Kelvin; the membrane permeability is
\* water_molar_mass * D_eff over R * T_membrane * thickness; the overall
\* permeability is their series combination k_m * k_g / (k_m + k_g).
C7_GapPermeability ==
  Done("MassFlux")
    => /\ REq(locals.gap_permeability,
              RDiv(RMul(water_molar_mass,
                        MolecularDiffusion(ROne, ROne, Kelvin(args.temperature_gap))),
                   RMul(RMul(RMul(gas_constant, Kelvin(args.temperature_gap)),
                             TotalPressure(args)),
                        args.air_gap_thickness)))
       /\ REq(locals.membrane_permeability,
              RDiv(RMul(water_molar_mass, locals.effective_diffusivity),
                   RMul(RMul(gas_constant, Kelvin(args.temperature_membrane)),
                        args.membrane_thickness)))
       /\ REq(locals.permeability,
              RDiv(RMul(locals.membrane_permeability, locals.gap_permeability),
                   RAdd(locals.membrane_permeability, locals.gap_permeability)))

C7_Witness ==
  /\ Done("MassFlux")
  /\ RLt(args.vacuum_pressure, RZero)
  /\ RLt(locals.gap_permeability, locals.membrane_permeability)
  /\ RLt(locals.permeability, locals.gap_permeability)

\* The callee's temperatures and diffusivities are those of the Kelvin values
\* of the caller's Celsius arguments.
KelvinInside ==
  Done("MassFlux")
    => LET tm == RAdd(args.temperature_membrane, RDec(27315, 2))
           tg == RAdd(args.temperature_gap, RDec(27315, 2))
           dm == MolecularDiffusion(args.membrane_porosity, args.membrane_tortuosity, tm)
           dk == KnudsenDiffusion(args.membrane_porosity, args.membrane_tortuosity,
                                  args.pore_diameter, tm)
       IN  /\ REq(locals.temperature_membrane, tm)
           /\ REq(locals.temperature_gap, tg)
           /\ REq(locals.knudsen_diffusivity, dk)
           /\ REq(locals.effective_diffusivity,
                  RDiv(RMul(dm, dk), RAdd(dm, RMul(TotalPressure(args), dk))))
           /\ REq(locals.molecular_diffusivity, MolecularDiffusion(ROne, ROne, tg))
           /\ REq(RMul(locals.membrane_permeability,
                       RMul(RMul(gas_constant, tm), args.membrane_thickness)),
                  RMul(water_molar_mass, locals.effective_diffusivity))
           /\ REq(RMul(locals.gap_permeability,
                       RMul(RMul(RMul(gas_constant, tg), TotalPressure(args)),
                            args.air_gap_thickness)),
                  RMul(water_molar_mass, locals.molecular_diffusivity))

\* C8: MassFlux adds 273.15 to temperature_membrane and temperature_gap before
\* any use (every diffusivity and permeability inside it is that of the Kelvin
\* values), on its own copies: the caller's arguments are what they were
\* before the call.
C8_KelvinLocalCopies == [](KelvinInside) /\ [][args' = args]_vars

C8_Witness ==
  /\ Done("MassFlux")
  /\ REq(args.temperature_membrane, RInt(60))
  /\ REq(args.temperature_gap, RInt(25))
  /\ REq(locals.temperature_membrane, RDec(33315, 2))
  /\ REq(locals.temperature_gap, RDec(29815, 2))

\* C9: the mass flux returned does not depend on gap_spacer_porosity: calls
\* that differ in that argument alone return the same value.
C9_GapSpacerPorosityIgnored ==
  Done("MassFlux")
    => \A g2 \in GapSpacerPorosities :
         REq(result, MassFluxLocalsOf([args EXCEPT !.gap_spacer_porosity = g2]).mass_flux)

C9_Witness ==
  /\ Done("MassFlux")
  /\ RLt(args.gap_spacer_porosity, ROne)
  /\ RLt(RZero, result)

====
